---- MODULE Spec2Model ----
(***************************************************************************)
(* Model of the corrections-report ingestion pipeline:                     *)
(*   deliriumviz.corrections_loader          (day-by-day scan, consolidate) *)
(*   deliriumviz_helpers._asegurar_datetime  (date normalisation)           *)
(*   deliriumviz_helpers._leer_html / _leer_tablas / _extraer_humedad       *)
(*   deliriumviz_helpers._procesar_tablas    (table-pair processing)        *)
(*                                                                         *)
(* Texts (file names, cell texts, labels) are sequences of one-character   *)
(* strings, so that formatting and parsing are computed, not assumed.      *)
(* A DataFrame is [cols, index, filas]: cols a sequence of column labels   *)
(* (a label is the tuple of its header levels), index a sequence of row    *)
(* labels, filas the rows, each a sequence of cells aligned with cols.     *)
(* A cell is [tipo, v] with tipo "str", "datetime" or "NaN".               *)
(***************************************************************************)
EXTENDS Integers, Sequences, FiniteSets, TLC

VARIABLES
    \* ---- corrections_loader ----
    fs,             \* the files beneath DATA_DIR
    pc,             \* position of the running call
    fecha_inicio,   \* the argument fecha_inicio, then its normalised value
    fecha_fin,      \* the argument fecha_fin, then its normalised value
    fecha_actual,   \* the day the scan stands on
    resultados,     \* accumulated blocks of corrections_loader
    mensajes,       \* st.success / st.error / st.warning lines, in order
    salida,         \* what the call returned or raised
    \* ---- _procesar_tablas ----
    tablas,         \* the table sequence handed to _procesar_tablas
    soup,           \* the h3 headings of the parsed document
    bucle           \* where the loop of _procesar_tablas stands

varsLoader == <<fs, fecha_inicio, fecha_fin, fecha_actual,
                resultados, mensajes, salida>>
varsTablas == <<tablas, soup, bucle>>
vars == <<pc, varsLoader, varsTablas>>

----------------------------------------------------------------------------
(* Bounds *)

\* longest table sequence handed to _procesar_tablas
MaxTables == 4
\* number of consecutive calendar days the arguments and report files span
NDays == 2

----------------------------------------------------------------------------
(* Generic helpers *)

Range(s) == {s[k] : k \in DOMAIN s}

RECURSIVE Flatten(_)
Flatten(ss) == IF ss = <<>> THEN <<>> ELSE Head(ss) \o Flatten(Tail(ss))

SeqsUpTo(S, n) == UNION {[1..k -> S] : k \in 0..n}

\* one character per element
Digito == <<"0", "1", "2", "3", "4", "5", "6", "7", "8", "9">>

Pad2(n) == <<Digito[(n \div 10) + 1], Digito[(n % 10) + 1]>>

Pad4(n) == Pad2(n \div 100) \o Pad2(n % 100)

EsDigito(c) == c \in Range(Digito)

ValorDigito(c) == (CHOOSE k \in DOMAIN Digito : Digito[k] = c) - 1

RECURSIVE Numero(_)
Numero(cs) == IF cs = <<>> THEN 0
              ELSE 10 * Numero(SubSeq(cs, 1, Len(cs) - 1)) + ValorDigito(cs[Len(cs)])

----------------------------------------------------------------------------
(* Cells and DataFrames *)

Str(cs) == [tipo |-> "str", v |-> cs]

NaN == [tipo |-> "NaN", v |-> <<>>]

RangeIndex(n) == [k \in 1..n |-> k - 1]

Shape0(df) == Len(df.index)

\* DataFrame.T: row labels become the column labels and back
Transponer(df) ==
    [cols  |-> df.index,
     index |-> df.cols,
     filas |-> [c \in 1..Len(df.cols) |-> [r \in 1..Len(df.index) |-> df.filas[r][c]]]]

\* positions of the columns carrying label l
Posiciones(df, l) ==
    LET P == {c \in 1..Len(df.cols) : df.cols[c] = l}
        RECURSIVE Asc(_, _)
        Asc(S, acc) == IF S = {} THEN acc
                       ELSE LET m == CHOOSE x \in S : \A y \in S : x <= y
                            IN  Asc(S \ {m}, Append(acc, m))
    IN  Asc(P, <<>>)

\* df[[l1, l2, ...]]: the columns with the listed labels, in list order
Seleccionar(df, ls) ==
    LET ps == Flatten([k \in 1..Len(ls) |-> Posiciones(df, ls[k])])
    IN  [cols  |-> [k \in 1..Len(ps) |-> df.cols[ps[k]]],
         index |-> df.index,
         filas |-> [r \in 1..Len(df.index) |-> [k \in 1..Len(ps) |-> df.filas[r][ps[k]]]]]

\* DataFrame.empty
Empty(df) == Len(df.index) = 0 \/ Len(df.cols) = 0

\* pd.concat([df] * n).reset_index(drop=True): the whole frame n times over
Repetir(df, n) ==
    [cols  |-> df.cols,
     index |-> RangeIndex(n * Len(df.index)),
     filas |-> Flatten([k \in 1..n |-> df.filas])]

\* number of header levels of the column labels
NLevels(df) == IF df.cols = <<>> THEN 1 ELSE Len(df.cols[1])

\* DataFrame.droplevel(0, axis=1), defined when NLevels(df) > 1
DropLevel0(df) == [df EXCEPT !.cols = [c \in 1..Len(df.cols) |-> Tail(df.cols[c])]]

\* rename_axis(nombre).reset_index(drop=False): the row labels become the
\* first column and the index becomes 0..n-1
ResetIndex(df, nombre) ==
    [cols  |-> <<nombre>> \o df.cols,
     index |-> RangeIndex(Len(df.index)),
     filas |-> [r \in 1..Len(df.index) |-> <<Str(df.index[r])>> \o df.filas[r]]]

\* pd.concat(dfs, axis=1) of frames indexed 0..n-1: outer join on the index
ConcatColumnas(dfs) ==
    LET alto == IF dfs = <<>> THEN 0
                ELSE CHOOSE h \in {Shape0(dfs[k]) : k \in DOMAIN dfs} :
                         \A k \in DOMAIN dfs : Shape0(dfs[k]) <= h
    IN  [cols  |-> Flatten([k \in DOMAIN dfs |-> dfs[k].cols]),
         index |-> RangeIndex(alto),
         filas |-> [r \in 1..alto |->
                      Flatten([k \in DOMAIN dfs |->
                          IF r <= Shape0(dfs[k]) THEN dfs[k].filas[r]
                          ELSE [c \in 1..Len(dfs[k].cols) |-> NaN]])]]

----------------------------------------------------------------------------
(* Dates and texts *)

IsLeap(y) == (y % 4 = 0 /\ y % 100 # 0) \/ y % 400 = 0

DaysInMonth(y, m) ==
    IF m = 2 THEN (IF IsLeap(y) THEN 28 + 1 ELSE 28)
    ELSE IF m \in {4, 6, 9, 11} THEN 30 ELSE 31

ValidDate(y, m, d) == y >= 1 /\ m \in 1..12 /\ d >= 1 /\ d <= DaysInMonth(y, m)

\* date + timedelta(days=1)
AddDay(f) ==
    IF f.d < DaysInMonth(f.y, f.m) THEN [f EXCEPT !.d = f.d + 1]
    ELSE IF f.m < 12 THEN [y |-> f.y, m |-> f.m + 1, d |-> 1]
    ELSE [y |-> f.y + 1, m |-> 1, d |-> 1]

\* strftime("%Y-%m-%d")
FechaStr(f) == Pad4(f.y) \o <<"-">> \o Pad2(f.m) \o <<"-">> \o Pad2(f.d)

\* text.split(sep)
RECURSIVE Split(_, _)
Split(cs, sep) ==
    IF \A k \in DOMAIN cs : cs[k] # sep THEN <<cs>>
    ELSE LET k == CHOOSE j \in DOMAIN cs : cs[j] = sep /\ \A h \in 1..(j - 1) : cs[h] # sep
         IN  <<SubSeq(cs, 1, k - 1)>> \o Split(SubSeq(cs, k + 1, Len(cs)), sep)

Digitos(cs, lo, hi) ==
    Len(cs) >= lo /\ Len(cs) <= hi /\ \A k \in DOMAIN cs : EsDigito(cs[k])

\* whether text is accepted by the "%Y-%m-%d" pattern
EsFechaTexto(cs) ==
    LET p == Split(cs, "-")
    IN  /\ Len(cs) <= 10
        /\ Len(p) = 3
        /\ Digitos(p[1], 4, 4) /\ Digitos(p[2], 1, 2) /\ Digitos(p[3], 1, 2)
        /\ ValidDate(Numero(p[1]), Numero(p[2]), Numero(p[3]))

FechaDeTexto(cs) ==
    LET p == Split(cs, "-")
    IN  [y |-> Numero(p[1]), m |-> Numero(p[2]), d |-> Numero(p[3])]

HoraStr(h) == Pad2(h) \o <<":", "0", "0", ":", "0", "0">>

\* whether pd.to_datetime can read text as a timestamp: a date, or a date, a
\* blank and HH:MM:SS
EsTimestampTexto(cs) ==
    \/ EsFechaTexto(cs)
    \/ /\ Len(cs) = 19
       /\ EsFechaTexto(SubSeq(cs, 1, 10))
       /\ cs[11] = " " /\ cs[14] = ":" /\ cs[17] = ":"
       /\ \A k \in {12, 13, 15, 16, 18, 19} : EsDigito(cs[k])
       /\ Numero(SubSeq(cs, 12, 13)) < 24
       /\ Numero(SubSeq(cs, 15, 16)) < 60
       /\ Numero(SubSeq(cs, 18, 19)) < 60

\* pd.to_datetime(value, errors="coerce") of one cell
ToDatetime(celda) ==
    IF celda.tipo = "datetime" THEN celda
    ELSE IF celda.tipo = "str" /\ EsTimestampTexto(celda.v)
         THEN [tipo |-> "datetime",
               v |-> IF Len(celda.v) = 19 THEN celda.v
                     ELSE FechaStr(FechaDeTexto(celda.v)) \o <<" ">> \o HoraStr(0)]
    ELSE NaN

\* df[l] = pd.to_datetime(df[l], errors="coerce"), for a label that occurs once
ToDatetimeCol(df, l) ==
    [df EXCEPT !.filas = [r \in 1..Len(df.index) |->
        [c \in 1..Len(df.cols) |->
            IF df.cols[c] = l THEN ToDatetime(df.filas[r][c]) ELSE df.filas[r][c]]]]

----------------------------------------------------------------------------
(* _extraer_humedad *)

\* A heading is [hay, entero, decimales]: whether its text holds the pattern
\* (\d+(\.\d+)?)% and, if so, the digits captured before and after the point.

\* the first h3 whose text matches, or 0 when none does
PrimerMatch(sp) ==
    IF \E k \in DOMAIN sp : sp[k].hay
    THEN CHOOSE k \in DOMAIN sp : sp[k].hay /\ \A h \in 1..(k - 1) : ~sp[h].hay
    ELSE 0

\* str(float(text)): no leading zeros, at least one decimal, no trailing zeros
RECURSIVE SinCerosIzq(_)
SinCerosIzq(cs) == IF Len(cs) > 1 /\ Head(cs) = "0" THEN SinCerosIzq(Tail(cs)) ELSE cs

RECURSIVE SinCerosDer(_)
SinCerosDer(cs) ==
    IF cs = <<>> THEN <<"0">>
    ELSE IF cs[Len(cs)] = "0" THEN SinCerosDer(SubSeq(cs, 1, Len(cs) - 1)) ELSE cs

FloatStr(h) == SinCerosIzq(h.entero) \o <<".">> \o SinCerosDer(h.decimales)

\* the cell f"{humidity}%" if humidity is not None else None
HumedadCelda(sp) ==
    IF PrimerMatch(sp) = 0 THEN NaN
    ELSE Str(FloatStr(sp[PrimerMatch(sp)]) \o <<"%">>)

----------------------------------------------------------------------------
(* _procesar_tablas *)

Timestamp == <<"Timestamp">>
DelayLine == <<"Delay line number">>
RailNumber == <<"Rail number">>
Humidity == <<"Tunnel Relative Humidity">>

\* list(columnas_req); the order of a set literal is fixed within one process
ColumnasReq == <<Timestamp, DelayLine>>

Omitido == [estado |-> "omitido", bloques |-> <<>>]
Fallido == [estado |-> "error", bloques |-> <<>>]

\* pd.DataFrame({"Tunnel Relative Humidity": [...] * n_repeat})
HumedadDf(sp, n) ==
    [cols |-> <<Humidity>>, index |-> RangeIndex(n),
     filas |-> [r \in 1..n |-> <<HumedadCelda(sp)>>]]

\* whether .droplevel(0, axis=1) is defined on the table: an index of one
\* level cannot lose it
PuedeDropLevel(corr) == NLevels(corr) > 1

\* test_pd_repeated
TestPdRepeated(test_pd, n_repeat) == Repetir(test_pd, n_repeat)

\* the body of the try block for the pair (meta, corr)
ProcesarPar(meta, corr, sp) ==
    LET n_repeat          == Shape0(corr)
        tabla_transpuesta == Transponer(meta)
        seleccion         == Seleccionar(tabla_transpuesta, ColumnasReq)
        test_pd           == ToDatetimeCol(seleccion, Timestamp)
        test_pd_repeated  == TestPdRepeated(test_pd, n_repeat)
        sin_nivel         == DropLevel0(corr)
        tabla_correcciones == ResetIndex(sin_nivel, RailNumber)
        humedad_df        == HumedadDf(sp, n_repeat)
    IN  IF n_repeat = 0 THEN Omitido
        ELSE IF ~(Range(ColumnasReq) \subseteq Range(tabla_transpuesta.cols)) THEN Omitido
        \* a row label occurring twice makes test_pd["Timestamp"] a frame
        ELSE IF Len(Posiciones(seleccion, Timestamp)) > 1 THEN Fallido
        ELSE IF Empty(test_pd) THEN Omitido
        ELSE IF ~PuedeDropLevel(corr) THEN Fallido
        \* reset_index cannot insert a column that already exists
        ELSE IF RailNumber \in Range(sin_nivel.cols) THEN Fallido
        ELSE [estado  |-> "bloque",
              bloques |-> <<ConcatColumnas(<<test_pd_repeated, humedad_df,
                                             tabla_correcciones>>)>>]

\* range(start, stop, step) for step > 0
RangoPy(start, stop, step) ==
    LET cuenta == IF stop > start THEN (stop - start + step - 1) \div step ELSE 0
    IN  [k \in 1..cuenta |-> start + (k - 1) * step]

MutIndicesDeUnoEnUno(ts) == RangoPy(0, Len(ts) - 1, 1)

\* for i in range(0, len(tablas) - 1, 2)
Indices(ts) == RangoPy(0, Len(ts) - 1, 2)

\* The loop of _procesar_tablas stands at [pos, res, leidas, impresos]: pos
\* iterations done, res the blocks appended so far, leidas the 0-based table
\* indices read so far, impresos the error lines printed so far.
BucleInicial == [pos |-> 0, res |-> <<>>, leidas |-> <<>>, impresos |-> 0]

MutPasoAbortaTrasError(ts, sp, st) ==
    LET i == Indices(ts)[st.pos + 1]
        r == ProcesarPar(ts[i + 1], ts[i + 2], sp)
    IN  [pos      |-> IF r.estado = "error" THEN Len(Indices(ts)) ELSE st.pos + 1,
         res      |-> st.res \o r.bloques,
         leidas   |-> st.leidas \o (IF Shape0(ts[i + 2]) = 0 THEN <<i + 1>> ELSE <<i + 1, i>>),
         impresos |-> st.impresos + (IF r.estado = "error" THEN 1 ELSE 0)]

\* one iteration: the try block on tablas[i], tablas[i + 1], the except
\* clause that prints, and the step to the next index
Paso(ts, sp, st) ==
    LET i == Indices(ts)[st.pos + 1]
        r == ProcesarPar(ts[i + 1], ts[i + 2], sp)
    IN  [pos      |-> st.pos + 1,
         res      |-> st.res \o r.bloques,
         leidas   |-> st.leidas \o (IF Shape0(ts[i + 2]) = 0 THEN <<i + 1>> ELSE <<i + 1, i>>),
         impresos |-> st.impresos + (IF r.estado = "error" THEN 1 ELSE 0)]

RECURSIVE Bucle(_, _, _)
Bucle(ts, sp, st) ==
    IF st.pos >= Len(Indices(ts)) THEN st ELSE Bucle(ts, sp, Paso(ts, sp, st))

\* _procesar_tablas(tablas, soup, nombre_archivo): the blocks it returns
ProcesarTablas(ts, sp) == Bucle(ts, sp, BucleInicial).res

----------------------------------------------------------------------------
(* Sample tables, as pd.read_html(path, index_col=0) returns them *)

\* a metadata table: one row per field, one data column per entry of tss
MetaDe(etiquetas, valores) ==
    [cols  |-> [c \in 1..Len(valores[1]) |-> <<Digito[c + 1]>>],
     index |-> etiquetas,
     filas |-> [r \in 1..Len(etiquetas) |->
                  [c \in 1..Len(valores[r]) |-> Str(valores[r][c])]]]

\* a correction table: one row per rail, header of one or two levels
CorrDe(niveles, rails, nombres) ==
    [cols  |-> [c \in 1..Len(nombres) |->
                  IF niveles = 2 THEN <<"Corrections", nombres[c]>> ELSE <<nombres[c]>>],
     index |-> [r \in 1..Len(rails) |-> <<rails[r]>>],
     filas |-> [r \in 1..Len(rails) |->
                  [c \in 1..Len(nombres) |-> Str(<<Digito[r + 1], ".", Digito[c + 1]>>)]]]

TsMuestra(h) == FechaStr([y |-> 2022, m |-> 7, d |-> 10]) \o <<" ">> \o HoraStr(h)

MetaOk == MetaDe(<<Timestamp, DelayLine>>, <<<<TsMuestra(8)>>, <<<<"3">>>>>>)
MetaAncha == MetaDe(<<Timestamp, DelayLine>>,
                    <<<<TsMuestra(8), TsMuestra(9)>>, <<<<"3">>, <<"4">>>>>>)
MetaVacia == MetaDe(<<Timestamp, DelayLine>>, <<<<>>, <<>>>>)
MetaSinDelay == MetaDe(<<Timestamp, <<"Operator">>>>, <<<<TsMuestra(8)>>, <<<<"x">>>>>>)
MetaSinTimestamp == MetaDe(<<DelayLine>>, <<<<<<"5">>>>>>)

CorrDos == CorrDe(2, <<"1", "2">>, <<"X", "Y">>)
CorrPlano == CorrDe(1, <<"1", "2">>, <<"X", "Y">>)
CorrVacia == CorrDe(2, <<>>, <<"X", "Y">>)

TablasMuestra ==
    {MetaOk, MetaAncha, MetaVacia, MetaSinDelay, MetaSinTimestamp,
     CorrDos, CorrPlano, CorrVacia}

SoupMuestra ==
    {<<>>,
     <<[hay |-> FALSE, entero |-> <<>>, decimales |-> <<>>],
       [hay |-> TRUE, entero |-> <<"4", "5">>, decimales |-> <<"3">>]>>}

----------------------------------------------------------------------------
(* _procesar_tablas called on its own *)

NoFecha == [forma |-> "ninguna", texto |-> <<>>, fecha |-> [y |-> 1, m |-> 1, d |-> 1], hora |-> 0]
NoSalida == [tipo |-> "ninguna", error |-> "", df |-> [cols |-> <<>>, index |-> <<>>, filas |-> <<>>]]

LoaderInactivo ==
    /\ fs = {}
    /\ fecha_inicio = NoFecha /\ fecha_fin = NoFecha /\ fecha_actual = NoFecha
    /\ resultados = <<>> /\ mensajes = <<>> /\ salida = NoSalida

InitTablas ==
    /\ pc = "par"
    /\ tablas \in SeqsUpTo(TablasMuestra, MaxTables)
    /\ soup \in SoupMuestra
    /\ bucle = BucleInicial
    /\ LoaderInactivo

\* one iteration of the for loop
IterarPar ==
    /\ pc = "par"
    /\ bucle.pos < Len(Indices(tablas))
    /\ bucle' = Paso(tablas, soup, bucle)
    /\ UNCHANGED <<pc, tablas, soup, varsLoader>>

\* the loop is exhausted: return resultados
RetornarTablas ==
    /\ pc = "par"
    /\ bucle.pos >= Len(Indices(tablas))
    /\ pc' = "retorno"
    /\ UNCHANGED <<tablas, soup, bucle, varsLoader>>

NextTablas == IterarPar \/ RetornarTablas

SpecTablas == InitTablas /\ [][NextTablas]_vars

----------------------------------------------------------------------------
(* Properties of _procesar_tablas, under SpecTablas *)

\* the pair an IterarPar step works on
MetaActual == tablas[Indices(tablas)[bucle.pos + 1] + 1]
CorrActual == tablas[Indices(tablas)[bucle.pos + 1] + 2]

\* all rows of a frame agree on every column labelled l
MismaColumna(df, l) ==
    \A c \in 1..Len(df.cols) : df.cols[c] = l =>
        \A r1, r2 \in 1..Shape0(df) : df.filas[r1][c] = df.filas[r2][c]

\* C4: every block _procesar_tablas emits has exactly as many rows as the
\* correction table of its pair, whatever the number of data columns of the
\* metadata table, and all its rows carry the same Timestamp and the same
\* Delay line number.
C4_BloqueDeNFilas ==
    [][(pc = "par" /\ Len(bucle'.res) > Len(bucle.res)) =>
          LET B == bucle'.res[Len(bucle'.res)]
          IN  /\ Shape0(B) = Shape0(CorrActual)
              /\ MismaColumna(B, Timestamp)
              /\ MismaColumna(B, DelayLine)]_vars

\* the k-th pair of a table sequence, k = 1, 2, ...
ParMeta(ts, k) == ts[2 * k - 1]
ParCorr(ts, k) == ts[2 * k]
NPares(ts) == Len(ts) \div 2

\* the k-th pair yields no block: it is skipped or its processing raises
ParFalla(ts, sp, k) == ProcesarPar(ParMeta(ts, k), ParCorr(ts, k), sp).estado # "bloque"

\* the table sequence without its skipped and failing pairs
SinFallidos(ts, sp) ==
    Flatten([k \in 1..NPares(ts) |->
        IF ParFalla(ts, sp, k) THEN <<>> ELSE <<ParMeta(ts, k), ParCorr(ts, k)>>])

\* C5: when _procesar_tablas returns, every pair has been reached (no
\* exception left the loop), a pair with an empty correction table or with
\* metadata lacking Timestamp or Delay line number, or whose processing
\* raised, contributed no block, and the blocks returned are exactly those
\* returned for the same tables with the skipped and failing pairs removed.
C5_Aislamiento ==
    pc = "retorno" =>
        /\ bucle.pos = NPares(tablas)
        /\ \A k \in 1..NPares(tablas) :
              (\/ Shape0(ParCorr(tablas, k)) = 0
               \/ Timestamp \notin Range(ParMeta(tablas, k).index)
               \/ DelayLine \notin Range(ParMeta(tablas, k).index))
              => ParFalla(tablas, soup, k)
        /\ Len(bucle.res) = Cardinality({k \in 1..NPares(tablas) : ~ParFalla(tablas, soup, k)})
        /\ bucle.impresos = Cardinality({k \in 1..NPares(tablas) :
              ProcesarPar(ParMeta(tablas, k), ParCorr(tablas, k), soup).estado = "error"})
        /\ bucle.res = ProcesarTablas(SinFallidos(tablas, soup), soup)

\* C5 witness: the first pair raised, the second was skipped or emitted, and
\* of two pairs exactly one block came back
C5_Witness ==
    /\ pc = "retorno"
    /\ Len(tablas) = 4
    /\ ProcesarPar(ParMeta(tablas, 1), ParCorr(tablas, 1), soup).estado = "error"
    /\ ~ParFalla(tablas, soup, 2)
    /\ Len(bucle.res) = 1

\* the metadata table names Timestamp and Delay line number once each and
\* has one data column
MetaValida(meta) ==
    /\ Len(Posiciones(Transponer(meta), Timestamp)) = 1
    /\ Len(Posiciones(Transponer(meta), DelayLine)) = 1
    /\ Len(meta.cols) = 1

\* C9: a pair whose correction table has a single-level header and n > 0
\* rows, with valid metadata, yields a block of n rows that keeps the
\* correction table's column names.
C9_CabeceraSimple ==
    [][(pc = "par" /\ bucle'.pos = bucle.pos + 1
        /\ NLevels(CorrActual) = 1 /\ Shape0(CorrActual) > 0 /\ MetaValida(MetaActual)) =>
          /\ Len(bucle'.res) = Len(bucle.res) + 1
          /\ Shape0(bucle'.res[Len(bucle'.res)]) = Shape0(CorrActual)
          /\ Range(CorrActual.cols) \subseteq Range(bucle'.res[Len(bucle'.res)].cols)]_vars

SinRepetidos(s) == \A a, b \in DOMAIN s : s[a] = s[b] => a = b

\* C10: for a table sequence of length L the loop reads table 2k+1 and then
\* (unless that table is empty) table 2k, for k = 0, 1, ... in increasing
\* order, only for 2k+1 < L; no table is read in two iterations; with L odd
\* the last table is never read; on return every complete pair was examined
\* and each iteration left at most one block or one error line.
C10_ParesAdyacentes ==
    LET L == Len(tablas)
        impares == SelectSeq(bucle.leidas, LAMBDA j : j % 2 = 1)
    IN  /\ SinRepetidos(bucle.leidas)
        /\ \A j \in Range(bucle.leidas) : j >= 0 /\ j < 2 * (L \div 2)
        /\ impares = [p \in 1..bucle.pos |-> 2 * p - 1]
        /\ \A q \in DOMAIN bucle.leidas :
              bucle.leidas[q] % 2 = 0 => (q > 1 /\ bucle.leidas[q - 1] = bucle.leidas[q] + 1)
        /\ Len(bucle.res) + bucle.impresos <= bucle.pos
        /\ pc = "retorno" => bucle.pos = L \div 2

\* C10 witness: three tables, one pair examined, the third table unread
C10_Witness ==
    /\ pc = "retorno"
    /\ Len(tablas) = 3
    /\ bucle.leidas = <<1, 0>>
    /\ Len(bucle.res) = 1

----------------------------------------------------------------------------
(* _asegurar_datetime *)

\* A value is [forma, texto, fecha, hora]: forma "str" (texto holds it),
\* "date" (fecha), "datetime" (fecha and hora, the hour of the day) or
\* "otro" (a value of no supported type).
ArgStr(cs) == [forma |-> "str", texto |-> cs, fecha |-> NoFecha.fecha, hora |-> 0]
ArgDate(f) == [forma |-> "date", texto |-> <<>>, fecha |-> f, hora |-> 0]
ArgDatetime(f, h) == [forma |-> "datetime", texto |-> <<>>, fecha |-> f, hora |-> h]
ArgOtro == [forma |-> "otro", texto |-> <<>>, fecha |-> NoFecha.fecha, hora |-> 0]

\* datetime.strptime(texto, "%Y-%m-%d"), the datetime itself, or
\* datetime.combine(date, datetime.min.time()); otherwise it raises
AsegurarDatetime(arg) ==
    IF arg.forma = "str"
    THEN IF EsFechaTexto(arg.texto)
         THEN [error |-> "", dt |-> ArgDatetime(FechaDeTexto(arg.texto), 0)]
         ELSE [error |-> "ValueError", dt |-> NoFecha]
    ELSE IF arg.forma = "datetime"
    THEN [error |-> "", dt |-> arg]
    ELSE IF arg.forma = "date"
    THEN [error |-> "", dt |-> ArgDatetime(arg.fecha, 0)]
    ELSE [error |-> "TypeError", dt |-> NoFecha]

\* a <= b on datetimes
DtLeq(a, b) ==
    LET ka == <<a.fecha.y, a.fecha.m, a.fecha.d, a.hora>>
        kb == <<b.fecha.y, b.fecha.m, b.fecha.d, b.hora>>
    IN  \/ ka = kb
        \/ \E k \in 1..4 : ka[k] < kb[k] /\ \A h \in 1..(k - 1) : ka[h] = kb[h]

\* datetime + timedelta(days=1): the time of day stays
MasUnDia(dt) == [dt EXCEPT !.fecha = AddDay(dt.fecha)]

\* the last day a datetime can hold (datetime.max.date())
FechaMax == [y |-> 9999, m |-> 12, d |-> 31]

\* datetime + timedelta(days=1) raises OverflowError: the sum is past
\* datetime.max
Desborda(dt) == dt.fecha = FechaMax

----------------------------------------------------------------------------
(* Sample arguments and report files *)

PrimerDia == [y |-> 2022, m |-> 12, d |-> 31]

RECURSIVE DiasDesde(_, _)
DiasDesde(f, n) == IF n = 0 THEN <<>> ELSE <<f>> \o DiasDesde(AddDay(f), n - 1)

\* the days the sample arguments and report files are dated on: they cross
\* the end of a month and of a year
Dias == Range(DiasDesde(PrimerDia, NDays))

\* hours of the day a datetime argument carries
Horas == {0, 15}

\* arguments on the days `dias`: texts in and out of the format, dates,
\* datetimes and a value of no supported type
ArgsEn(dias) ==
    {ArgStr(FechaStr(f)) : f \in dias}
    \cup {ArgStr(<<"3", "0", "/", "1", "2", "/", "2", "0", "2", "2">>)}
    \cup {ArgDate(f) : f \in dias}
    \cup {ArgDatetime(f, h) : f \in dias, h \in Horas}
    \cup {ArgOtro}

ArgsMuestra == ArgsEn(Dias)

SoupHumedad == <<[hay |-> TRUE, entero |-> <<"4", "5">>, decimales |-> <<>>]>>

MetaDia(f, h, linea) ==
    MetaDe(<<Timestamp, DelayLine>>, <<<<FechaStr(f) \o <<" ">> \o HoraStr(h)>>, <<<<linea>>>>>>)

NOMBRE_BASE == "corrections_report"

\* f"{NOMBRE_BASE}_{fecha_str}.html"
NombreArchivo(f) == <<NOMBRE_BASE, "_">> \o FechaStr(f) \o <<".html">>

MutRutaPlana(f) == <<NombreArchivo(f)>>

\* DATA_DIR / anio / mes / nombre, as the components beneath DATA_DIR
Ruta(f) == <<Pad4(f.y), Pad2(f.m), NombreArchivo(f)>>

\* A file beneath DATA_DIR is [ruta, fecha, clase]: its path, the day its
\* report covers and what it holds; the tables and headings are read from it.
Archivo(ruta, f, clase) == [ruta |-> ruta, fecha |-> f, clase |-> clase]

\* the report of day f: two pairs, of two rows and of one row
TablasBuenas(f) ==
    <<MetaDia(f, 8, "3"), CorrDos, MetaDia(f, 9, "4"), CorrDe(2, <<"1">>, <<"X", "Y">>)>>

\* a report whose correction table has a sub-column named Timestamp
TablasDupTimestamp(f) ==
    <<MetaDia(f, 8, "3"), CorrDe(2, <<"1", "2">>, <<"Timestamp", "Y">>)>>

\* open(path).read() succeeds
Legible(a) == a.clase # "ilegible"

\* pd.read_html(path, index_col=0): the tables, or that it raised
ReadHtml(a) ==
    CASE a.clase = "bueno"         -> [ok |-> TRUE, tablas |-> TablasBuenas(a.fecha)]
      [] a.clase = "dup_timestamp" -> [ok |-> TRUE, tablas |-> TablasDupTimestamp(a.fecha)]
      [] OTHER                     -> [ok |-> FALSE, tablas |-> <<>>]

\* the h3 headings of BeautifulSoup(html, "lxml")
SoupDe(a) == IF a.clase = "sin_tablas" THEN <<>> ELSE SoupHumedad

\* the caller's year/month folder of day f
CarpetaDelDia(f) == <<Pad4(f.y), Pad2(f.m)>>

\* what may lie beneath DATA_DIR for day f: nothing, a file in the
\* year/month folder of its day, or a good report directly beneath DATA_DIR
ArchivosDia(f, opcion) ==
    CASE opcion = "ausente"      -> {}
      [] opcion = "otra_carpeta" -> {Archivo(<<NombreArchivo(f)>>, f, "bueno")}
      [] OTHER                   -> {Archivo(CarpetaDelDia(f) \o <<NombreArchivo(f)>>, f, opcion)}

Opciones == {"ausente", "bueno", "ilegible", "sin_tablas", "dup_timestamp", "otra_carpeta"}

SistemasEn(dias) ==
    {UNION {ArchivosDia(f, o[f]) : f \in dias} : o \in [dias -> Opciones]}

SistemasDeArchivos == SistemasEn(Dias)

----------------------------------------------------------------------------
(* corrections_loader *)

\* the file at a path, as a set of at most one file
EnRuta(archivos, ruta) == {a \in archivos : a.ruta = ruta}

\* pd.concat(bloques, ignore_index=True) is defined: frames whose column
\* labels repeat can only be stacked when all frames have the same columns
ConcatFilasDefinido(bs) ==
    \/ \A k \in DOMAIN bs : SinRepetidos(bs[k].cols)
    \/ \A k \in DOMAIN bs : bs[k].cols = bs[1].cols

\* the union of the column labels, in order of first appearance
RECURSIVE UnionCols(_, _)
UnionCols(cs, acc) ==
    IF cs = <<>> THEN acc
    ELSE UnionCols(Tail(cs), IF Head(cs) \in Range(acc) THEN acc ELSE Append(acc, Head(cs)))

\* pd.concat(bloques, ignore_index=True), where defined
ConcatFilas(bs) ==
    IF \A k \in DOMAIN bs : bs[k].cols = bs[1].cols
    THEN LET filas == Flatten([k \in DOMAIN bs |-> bs[k].filas])
         IN  [cols |-> bs[1].cols, index |-> RangeIndex(Len(filas)), filas |-> filas]
    ELSE LET cols == UnionCols(Flatten([k \in DOMAIN bs |-> bs[k].cols]), <<>>)
             fila(b, r) == [c \in 1..Len(cols) |->
                              IF cols[c] \in Range(b.cols)
                              THEN b.filas[r][Posiciones(b, cols[c])[1]] ELSE NaN]
             filas == Flatten([k \in DOMAIN bs |->
                          [r \in 1..Shape0(bs[k]) |-> fila(bs[k], r)]])
         IN  [cols |-> cols, index |-> RangeIndex(Len(filas)), filas |-> filas]

DfVacio == [cols |-> <<>>, index |-> <<>>, filas |-> <<>>]

Retorno(df) == [tipo |-> "retorno", error |-> "", df |-> df]
Excepcion(e) == [tipo |-> "excepcion", error |-> e, df |-> DfVacio]

Mensaje(nivel, archivo) == [nivel |-> nivel, archivo |-> archivo]

\* the consolidation after the loop: what the call returns or raises, and
\* the warning it shows
Consolidacion(res) ==
    IF res = <<>> THEN [salida |-> Retorno(DfVacio), aviso |-> <<Mensaje("warning", <<>>)>>]
    ELSE IF ~ConcatFilasDefinido(res)
    THEN [salida |-> Excepcion("InvalidIndexError"), aviso |-> <<>>]
    \* df_final["Timestamp"] is a frame when the label repeats, and
    \* pd.to_datetime does not take it; it is coerced in place otherwise
    ELSE LET df_final == ConcatFilas(res)
         IN  IF Len(Posiciones(df_final, Timestamp)) # 1
             THEN [salida |-> Excepcion("ValueError"), aviso |-> <<>>]
             ELSE [salida |-> Retorno(ToDatetimeCol(df_final, Timestamp)), aviso |-> <<>>]

\* _leer_tablas turns a pd.read_html failure into []
LeerTablas(a) == IF ReadHtml(a).ok THEN ReadHtml(a).tablas ELSE <<>>

\* the try block on one existing file: _leer_html raises on a file that
\* cannot be read
LeerYProcesar(a) ==
    IF ~Legible(a) THEN [ok |-> FALSE, bloques |-> <<>>]
    ELSE [ok |-> TRUE, bloques |-> ProcesarTablas(LeerTablas(a), SoupDe(a))]

MutAcumularAlFrente(res, r) == IF r.ok THEN r.bloques \o res ELSE res

MutAcumularVaciaTrasError(res, r) == IF r.ok THEN res \o r.bloques ELSE <<>>

\* resultados.extend(...) when the try block ends, nothing when it raised
Acumular(res, r) == IF r.ok THEN res \o r.bloques ELSE res

\* fecha_actual += timedelta(days=1), outside the try block: the scan
\* stands on the next day, or the sum raises and the scan stays where it was
Avanzar(st) ==
    IF Desborda(st.fecha_actual) THEN [st EXCEPT !.error = "OverflowError"]
    ELSE [st EXCEPT !.fecha_actual = MasUnDia(st.fecha_actual)]

\* The scan stands at [fecha_actual, resultados, mensajes, error].
\* One iteration of the while loop on the files `archivos`.
DiaPaso(archivos, st) ==
    LET ruta == Ruta(st.fecha_actual.fecha)
        nombre_archivo == ruta[Len(ruta)]
    IN  IF EnRuta(archivos, ruta) = {}
        THEN Avanzar(st)
        ELSE LET a == CHOOSE x \in EnRuta(archivos, ruta) : TRUE
                 r == LeerYProcesar(a)
             IN  Avanzar([st EXCEPT
                     !.resultados = Acumular(st.resultados, r),
                     !.mensajes = Append(st.mensajes,
                                     Mensaje(IF r.ok THEN "success" ELSE "error",
                                             nombre_archivo))])

\* the scan from st until it stands on `hasta` or has passed `fin`
RECURSIVE ScanHasta(_, _, _, _)
ScanHasta(archivos, fin, st, hasta) ==
    IF st.fecha_actual = hasta \/ ~DtLeq(st.fecha_actual, fin) \/ st.error # "" THEN st
    ELSE ScanHasta(archivos, fin, DiaPaso(archivos, st), hasta)

----------------------------------------------------------------------------
(* corrections_loader: the state machine *)

TablasInactivo == tablas = <<>> /\ soup = <<>> /\ bucle = BucleInicial

Init ==
    /\ pc = "inicio"
    /\ fecha_inicio \in ArgsMuestra
    /\ fecha_fin \in ArgsMuestra
    /\ fs \in SistemasDeArchivos
    /\ fecha_actual = NoFecha
    /\ resultados = <<>> /\ mensajes = <<>> /\ salida = NoSalida
    /\ TablasInactivo

\* _asegurar_datetime raises on fecha_inicio or on fecha_fin, outside any try
AsegurarLanza ==
    /\ pc = "inicio"
    /\ LET n1 == AsegurarDatetime(fecha_inicio)
           n2 == AsegurarDatetime(fecha_fin)
       IN  /\ n1.error # "" \/ n2.error # ""
           /\ fecha_inicio' = IF n1.error = "" THEN n1.dt ELSE fecha_inicio
           /\ salida' = Excepcion(IF n1.error # "" THEN n1.error ELSE n2.error)
    /\ pc' = "fin"
    /\ UNCHANGED <<fs, fecha_fin, fecha_actual, resultados, mensajes, varsTablas>>

\* the time-zone check raises (no zone data for ZONA_LOCAL): st.error and an
\* empty frame
ZonaFalla ==
    /\ pc = "inicio"
    /\ LET n1 == AsegurarDatetime(fecha_inicio)
           n2 == AsegurarDatetime(fecha_fin)
       IN  /\ n1.error = "" /\ n2.error = ""
           /\ fecha_inicio' = n1.dt
           /\ fecha_fin' = n2.dt
    /\ mensajes' = Append(mensajes, Mensaje("error", <<>>))
    /\ salida' = Retorno(DfVacio)
    /\ pc' = "fin"
    /\ UNCHANGED <<fs, fecha_actual, resultados, varsTablas>>

\* both dates normalise and pass the time-zone check: the scan starts
IniciarScan ==
    /\ pc = "inicio"
    /\ LET n1 == AsegurarDatetime(fecha_inicio)
           n2 == AsegurarDatetime(fecha_fin)
       IN  /\ n1.error = "" /\ n2.error = ""
           /\ fecha_inicio' = n1.dt
           /\ fecha_fin' = n2.dt
           /\ fecha_actual' = n1.dt
    /\ resultados' = <<>>
    /\ pc' = "dia"
    /\ UNCHANGED <<fs, mensajes, salida, varsTablas>>

ScanActual == [fecha_actual |-> fecha_actual, resultados |-> resultados,
               mensajes |-> mensajes, error |-> ""]

AplicarDiaPaso ==
    LET st == DiaPaso(fs, ScanActual)
    IN  /\ fecha_actual' = st.fecha_actual
        /\ resultados' = st.resultados
        /\ mensajes' = st.mensajes
        /\ pc' = IF st.error # "" THEN "fin" ELSE pc
        /\ salida' = IF st.error # "" THEN Excepcion(st.error) ELSE salida
        /\ UNCHANGED <<fs, fecha_inicio, fecha_fin, varsTablas>>

\* a day of the range without a file at its path
DiaSinArchivo ==
    /\ pc = "dia"
    /\ DtLeq(fecha_actual, fecha_fin)
    /\ EnRuta(fs, Ruta(fecha_actual.fecha)) = {}
    /\ AplicarDiaPaso

\* a day of the range with a file at its path: the try block and its except
DiaProcesar ==
    /\ pc = "dia"
    /\ DtLeq(fecha_actual, fecha_fin)
    /\ EnRuta(fs, Ruta(fecha_actual.fecha)) # {}
    /\ AplicarDiaPaso

\* the range is exhausted: consolidate and return
Consolidar ==
    /\ pc = "dia"
    /\ ~DtLeq(fecha_actual, fecha_fin)
    /\ LET c == Consolidacion(resultados)
       IN  salida' = c.salida /\ mensajes' = mensajes \o c.aviso
    /\ pc' = "fin"
    /\ UNCHANGED <<fs, fecha_inicio, fecha_fin, fecha_actual, resultados, varsTablas>>

Next ==
    \/ AsegurarLanza
    \/ ZonaFalla
    \/ IniciarScan
    \/ DiaSinArchivo
    \/ DiaProcesar
    \/ Consolidar

Spec == Init /\ [][Next]_vars

\* The same call on the last days a datetime can hold.
DiasLimite == {[FechaMax EXCEPT !.d = FechaMax.d - k] : k \in 0..(NDays - 1)}

InitLimite ==
    /\ pc = "inicio"
    /\ fecha_inicio \in ArgsEn(DiasLimite)
    /\ fecha_fin \in ArgsEn(DiasLimite)
    /\ fs \in SistemasEn(DiasLimite)
    /\ fecha_actual = NoFecha
    /\ resultados = <<>> /\ mensajes = <<>> /\ salida = NoSalida
    /\ TablasInactivo

SpecLimite == InitLimite /\ [][Next]_vars

----------------------------------------------------------------------------
(* Properties of corrections_loader, under Spec *)

\* the scan has started (both dates were normalised and passed the check)
ScanIniciado == fecha_actual # NoFecha

ScanTerminado == pc = "fin" /\ ScanIniciado

\* the conversion of a date argument fails
ConversionFalla == AsegurarDatetime(fecha_inicio).error # ""
                   \/ AsegurarDatetime(fecha_fin).error # ""

\* the days start, start + 1 day, ... that are not after end
RECURSIVE Visitados(_, _)
Visitados(dt, fin) ==
    IF ~DtLeq(dt, fin) THEN {} ELSE {dt.fecha} \cup Visitados(MasUnDia(dt), fin)

FechaMenor(f, g) == DtLeq(ArgDatetime(f, 0), ArgDatetime(g, 0)) /\ f # g

\* the rows of a frame whose Timestamp lies on day f
FilasDe(df, f) ==
    {r \in 1..Shape0(df) :
        \E c \in 1..Len(df.cols) :
            /\ df.cols[c] = Timestamp
            /\ df.filas[r][c].tipo = "datetime"
            /\ SubSeq(df.filas[r][c].v, 1, 10) = FechaStr(f)}

\* the file is named after its day and lies in the year/month folder of it
EnCarpetaDelDia(a) == a.ruta = <<Pad4(a.fecha.y), Pad2(a.fecha.m), NombreArchivo(a.fecha)>>

\* the loop opened the file: a success or error line names it
Descubierto(a) == \E k \in DOMAIN mensajes : mensajes[k].archivo = a.ruta[Len(a.ruta)]

\* C1: when the conversion of start or end fails, the call does not raise:
\* it returns an empty dataset and shows an error message.
C1_ConversionNoLanza ==
    (pc = "fin" /\ ConversionFalla) =>
        /\ salida.tipo = "retorno"
        /\ Empty(salida.df)
        /\ \E k \in DOMAIN mensajes : mensajes[k].nivel = "error"

\* C2: for start <= end in any accepted shape, after a completed call a file
\* dated strictly outside [start, end] contributes no row, and a valid report
\* dated on the day of start or on the day of end contributes its rows.
C2_RangoInclusivo ==
    (ScanTerminado /\ salida.tipo = "retorno" /\ DtLeq(fecha_inicio, fecha_fin)) =>
        /\ \A a \in fs :
              (FechaMenor(a.fecha, fecha_inicio.fecha) \/ FechaMenor(fecha_fin.fecha, a.fecha))
              => FilasDe(salida.df, a.fecha) = {}
        /\ \A a \in fs :
              (a.fecha \in {fecha_inicio.fecha, fecha_fin.fecha}
               /\ EnCarpetaDelDia(a) /\ a.clase = "bueno")
              => FilasDe(salida.df, a.fecha) # {}

ArchivoFalla(a) == ~Legible(a) \/ ~ReadHtml(a).ok

ScanInicial == [fecha_actual |-> fecha_inicio, resultados |-> <<>>, mensajes |-> <<>>,
                error |-> ""]

\* C6: at every point of the scan the accumulated blocks and the current day
\* are those of the same scan over the files without the failing ones, so a
\* failing file adds nothing, changes nothing accumulated and does not stop
\* the scan, which ends only past the end date; each file that cannot be
\* read leaves one error line.
C6_FalloAislado ==
    ScanIniciado =>
        LET limpio == ScanHasta({a \in fs : ~ArchivoFalla(a)}, fecha_fin, ScanInicial,
                                fecha_actual)
        IN  /\ resultados = limpio.resultados
            /\ fecha_actual = limpio.fecha_actual
            /\ pc = "fin" => ~DtLeq(fecha_actual, fecha_fin)
            /\ pc = "fin" =>
                  \A a \in fs : (EnCarpetaDelDia(a) /\ ~Legible(a)
                                 /\ a.fecha \in Visitados(fecha_inicio, fecha_fin))
                      => \E k \in DOMAIN mensajes :
                            mensajes[k] = Mensaje("error", NombreArchivo(a.fecha))

\* C6 witness: a good report was processed, then an unreadable file failed,
\* and the blocks of the good report are still there at the end
C6_Witness ==
    /\ pc = "fin"
    /\ \E j, k \in DOMAIN mensajes :
          /\ j < k
          /\ mensajes[j].nivel = "success"
          /\ mensajes[k].nivel = "error" /\ mensajes[k].archivo # <<>>
    /\ Len(resultados) = 2

\* C7: for valid start <= end the call never raises, whatever the files hold.
C7_NuncaLanza ==
    (pc = "fin" /\ ~ConversionFalla /\ DtLeq(fecha_inicio, fecha_fin)) =>
        salida.tipo = "retorno"

\* the code point of a character of a path
Codigo(c) ==
    CASE EsDigito(c)     -> 48 + ValorDigito(c)
      [] c = "-"         -> 45
      [] c = ".html"     -> 46
      [] c = "_"         -> 95
      [] c = NOMBRE_BASE -> 99

\* a < b on texts
TextoMenor(a, b) ==
    \E k \in 1..(Len(a) + 1) :
        /\ \A h \in 1..(k - 1) : h <= Len(b) /\ a[h] = b[h]
        /\ \/ k = Len(a) + 1 /\ Len(b) > Len(a)
           \/ k <= Len(a) /\ k <= Len(b) /\ Codigo(a[k]) < Codigo(b[k])

\* p < q on paths, component by component
RutaMenor(p, q) ==
    \E k \in 1..(Len(p) + 1) :
        /\ \A h \in 1..(k - 1) : h <= Len(q) /\ p[h] = q[h]
        /\ \/ k = Len(p) + 1 /\ Len(q) > Len(p)
           \/ k <= Len(p) /\ k <= Len(q) /\ TextoMenor(p[k], q[k])

RECURSIVE PorRuta(_)
PorRuta(S) ==
    IF S = {} THEN <<>>
    ELSE LET a == CHOOSE x \in S : \A y \in S \ {x} : RutaMenor(x.ruta, y.ruta)
         IN  <<a>> \o PorRuta(S \ {a})

\* the position, in the file of its day, of the pair a row comes from
ParDeFila(df, r) ==
    LET ts == df.filas[r][Posiciones(df, Timestamp)[1]].v
        a  == CHOOSE x \in fs : EnCarpetaDelDia(x) /\ FechaStr(x.fecha) = SubSeq(ts, 1, 10)
        t  == ReadHtml(a).tablas
    IN  <<a.ruta, CHOOSE k \in 1..NPares(t) : ParMeta(t, k).filas[1][1].v = ts>>

\* C8: a returned non-empty dataset is the blocks of the processed files
\* stacked in ascending order of file path and, within a file, in pair
\* order: its rows are the rows of those blocks in that order, so a block's
\* rows are contiguous, and its row index is 0..N-1.
C8_OrdenDeBloques ==
    (pc = "fin" /\ salida.tipo = "retorno" /\ resultados # <<>>) =>
        LET procesados == {a \in fs : /\ a.fecha \in Visitados(fecha_inicio, fecha_fin)
                                      /\ EnCarpetaDelDia(a) /\ Legible(a)}
            orden   == PorRuta(procesados)
            bloques == Flatten([k \in DOMAIN orden |->
                           ProcesarTablas(LeerTablas(orden[k]), SoupDe(orden[k]))])
            df      == salida.df
        IN  /\ df.filas = Flatten([k \in DOMAIN bloques |-> bloques[k].filas])
            /\ df.index = RangeIndex(Len(df.filas))
            /\ \A r1, r2 \in 1..Shape0(df) : r1 < r2 =>
                  LET k1 == ParDeFila(df, r1)
                      k2 == ParDeFila(df, r2)
                  IN  \/ RutaMenor(k1[1], k2[1])
                      \/ k1[1] = k2[1] /\ k1[2] <= k2[2]

\* C8 witness: two reports of two pairs each were consolidated into six rows
C8_Witness ==
    /\ pc = "fin"
    /\ salida.tipo = "retorno"
    /\ Len(resultados) = 4
    /\ Shape0(salida.df) = 6
    /\ Cardinality({mensajes[k].archivo : k \in DOMAIN mensajes}) = 2

----------------------------------------------------------------------------
(* Properties of the scan at the end of the calendar, under SpecLimite *)

\* the loop condition holds: one more iteration follows
EnBucle == pc = "dia" /\ DtLeq(fecha_actual, fecha_fin)

\* C11: every iteration of the day-by-day scan, whether its file is missing,
\* processed or failing, moves the current day on by exactly one day and
\* stays in the loop, so the scan leaves the loop only by its condition; a
\* call with start > end makes no iteration, reads no file and returns the
\* empty dataset without an error.
C11_ScanCompleta ==
    [][ /\ EnBucle => /\ pc' = "dia"
                      /\ fecha_actual' = MasUnDia(fecha_actual)
        /\ (pc = "dia" /\ ~DtLeq(fecha_inicio, fecha_fin)) =>
               /\ fecha_actual = fecha_inicio
               /\ pc' = "fin"
               /\ resultados' = <<>>
               /\ salida' = Retorno(DfVacio)
               /\ \A k \in DOMAIN mensajes' : mensajes'[k].nivel = "warning"
      ]_vars

====
